---- MODULE Spec2Model ----
(***************************************************************************)
(* A model of fc::variant (include/fc/variant.hpp) and of the fc time      *)
(* values (include/fc/time.hpp).                                           *)
(*                                                                         *)
(* Part A: the life cycle of variant objects over an explicit heap:        *)
(*         construction, copy, move, the three assignment operators,       *)
(*         the accessors get_string/get_array/get_object and destruction.  *)
(* Part B: the conversion protocol (to_variant/from_variant) for           *)
(*         optional<T>, std::vector<T>, std::set<T>, std::unordered_set<T> *)
(*         and std::shared_ptr<T>.                                         *)
(* Part C: microseconds and time_point over 64-bit two's complement.       *)
(*                                                                         *)
(* The out-of-line members of variant (variant.cpp) are not part of the    *)
(* header; their models follow the header's declarations and its           *)
(* documentation of them.                                                  *)
(***************************************************************************)
EXTENDS Integers, Sequences, FiniteSets, TLC

VARIABLES
  slot,      \* Part A: the variant objects v1..vN (alive flag, tag, inline data, handle)
  cells,     \* Part A: the heap: handle -> payload cell
  wild,      \* Part A: number of releases through a handle that names no live cell of its kind
  last,      \* Part A: the last call: [op, dst, ok] (dst and ok: of an accessor call)
  opt,       \* Part A: an optional<int64_t>, the destination of from_variant
  arg,       \* Part A: the optional<int64_t> the last optional constructor was given
  vec,       \* Part B: a std::vector<int64_t>
  vv,        \* Part B: a std::vector<std::vector<int64_t>>
  ovec,      \* Part B: an optional<std::vector<int64_t>>
  uset,      \* Part B: a std::unordered_set<int64_t>
  oset,      \* Part B: a std::set<int64_t>
  var,       \* Part B: a variant (by value): the last result of to_variant
  call,      \* Part B: the last conversion call: [op, ok]
  sp,        \* Part B: a std::shared_ptr<std::vector<int64_t>>: the object it owns, 0 if empty
  objs,      \* Part B: the objects made by std::make_shared
  nobj,      \* Part B: number of objects made so far
  tp,        \* Part C: a time_point
  d1,        \* Part C: a microseconds value
  d2,        \* Part C: a microseconds value
  steps,     \* Part C: number of arithmetic operations applied
  trap       \* Part C: a signed overflow ended the program

varsA == <<slot, cells, wild, last>>
varsO == <<opt, arg>>
varsB == <<vec, vv, ovec, uset, oset, var, call>>
varsP == <<sp, objs, nobj>>
varsC == <<tp, d1, d2, steps, trap>>
vars == <<slot, cells, wild, last, opt, arg, vec, vv, ovec, uset, oset, var, call,
          sp, objs, nobj, tp, d1, d2, steps, trap>>

(***************************************************************************)
(* Bounds of the model.                                                    *)
(***************************************************************************)
MaxHandles == 4
MaxLen == 2
MaxDepth == 2
MaxWild == 1

(***************************************************************************)
(* variant::type_id                                                        *)
(***************************************************************************)
null_type == 0
int64_type == 1
uint64_type == 2
double_type == 3
bool_type == 4
string_type == 5
array_type == 6
object_type == 7

TypeIds == null_type..object_type
IsHeapType(t) == t \in {string_type, array_type, object_type}
IsInlineType(t) == t \in {null_type, int64_type, uint64_type, double_type, bool_type}

Names == {1, 2}   \* the two variant objects v1 and v2
Handles == 1..MaxHandles
Min(a, b) == IF a < b THEN a ELSE b

(***************************************************************************)
(* Abstract variant values: what a variant holds, handles resolved.        *)
(***************************************************************************)
VScalar(t, d) == [type |-> t, data |-> d, str |-> "", kids |-> <<>>, keys |-> <<>>]
VNull == VScalar(null_type, 0)
VInt(n) == VScalar(int64_type, n)
VStr(s) == [type |-> string_type, data |-> 0, str |-> s, kids |-> <<>>, keys |-> <<>>]
VArr(ks) == [type |-> array_type, data |-> 0, str |-> "", kids |-> ks, keys |-> <<>>]
VObj(names, ks) == [type |-> object_type, data |-> 0, str |-> "", kids |-> ks, keys |-> names]
VDead == [type |-> -1, data |-> 0, str |-> "", kids |-> <<>>, keys |-> <<>>]
VGarbage == [type |-> -2, data |-> 0, str |-> "", kids |-> <<>>, keys |-> <<>>]

(***************************************************************************)
(* The 16-byte object: tag, 8-byte slot read as inline data or as handle.  *)
(***************************************************************************)
DeadSlot == [alive |-> FALSE, type |-> null_type, data |-> 0, ptr |-> 0]
MkVar(t, d, p) == [alive |-> TRUE, type |-> t, data |-> d, ptr |-> p]
NullVar == MkVar(null_type, 0, 0)

FreeCell == [st |-> "free", kind |-> null_type, str |-> "", kids |-> <<>>, keys |-> <<>>]
Heap(c, w) == [cells |-> c, wild |-> w]

\* operator new: the lowest free handle (0 when the heap is exhausted)
NewHandle(H) ==
  LET free == {h \in Handles : H.cells[h].st = "free"}
  IN IF free = {} THEN 0 ELSE CHOOSE h \in free : \A g \in free : h <= g

AllocCell(H, kind, s, ks, names) ==
  [H EXCEPT !.cells[NewHandle(H)] = [st |-> "live", kind |-> kind, str |-> s,
                                     kids |-> ks, keys |-> names]]

RECURSIVE Abs(_, _)
RECURSIVE AbsKids(_, _)
Abs(v, cs) ==
  IF ~v.alive THEN VDead
  ELSE IF v.type \notin TypeIds THEN VGarbage
  ELSE IF IsInlineType(v.type) THEN VScalar(v.type, v.data)
  ELSE IF v.ptr \notin Handles \/ cs[v.ptr].kind # v.type THEN VGarbage
  ELSE [type |-> v.type, data |-> 0, str |-> cs[v.ptr].str,
        kids |-> AbsKids(cs[v.ptr].kids, cs), keys |-> cs[v.ptr].keys]
AbsKids(ks, cs) ==
  IF ks = <<>> THEN <<>> ELSE <<Abs(Head(ks), cs)>> \o AbsKids(Tail(ks), cs)

RECURSIVE Nodes(_)
RECURSIVE NodesKids(_)
Nodes(a) ==
  IF IsHeapType(a.type) THEN 1 + NodesKids(a.kids) ELSE 0
NodesKids(ks) ==
  IF ks = <<>> THEN 0 ELSE Nodes(Head(ks)) + NodesKids(Tail(ks))

RECURSIVE Depth(_)
RECURSIVE DepthKids(_)
Depth(a) ==
  IF a.type \in {array_type, object_type} THEN 1 + DepthKids(a.kids) ELSE 0
DepthKids(ks) ==
  IF ks = <<>> THEN 0
  ELSE LET d == Depth(Head(ks))
           r == DepthKids(Tail(ks))
       IN IF d > r THEN d ELSE r

(***************************************************************************)
(* Typed constructors: build the value a on the heap H; [v, H].            *)
(***************************************************************************)
RECURSIVE Realize(_, _)
RECURSIVE RealizeKids(_, _)
Realize(a, H) ==
  IF ~IsHeapType(a.type) THEN [v |-> MkVar(a.type, a.data, 0), H |-> H]
  ELSE LET r == RealizeKids(a.kids, H)
       IN [v |-> MkVar(a.type, 0, NewHandle(r.H)),
           H |-> AllocCell(r.H, a.type, a.str, r.kids, a.keys)]
RealizeKids(ks, H) ==
  IF ks = <<>> THEN [kids |-> <<>>, H |-> H]
  ELSE LET f == Realize(Head(ks), H)
           r == RealizeKids(Tail(ks), f.H)
       IN [kids |-> <<f.v>> \o r.kids, H |-> r.H]

(***************************************************************************)
(* Tag-dispatched release of the payload of v (clear / ~variant).          *)
(* A release through a handle that names no live cell of the tag's kind    *)
(* (a second release, a stray handle) is counted in wild.                  *)
(***************************************************************************)
RECURSIVE Release(_, _)
RECURSIVE ReleaseKids(_, _)
Release(v, H) ==
  IF ~IsHeapType(v.type) THEN H
  ELSE IF v.ptr \notin Handles THEN [H EXCEPT !.wild = Min(@ + 1, MaxWild)]
  ELSE LET c == H.cells[v.ptr]
       IN IF c.st # "live" THEN [H EXCEPT !.wild = Min(@ + 1, MaxWild)]
          ELSE IF c.kind # v.type
            THEN [H EXCEPT !.cells[v.ptr] = FreeCell, !.wild = Min(@ + 1, MaxWild)]
          ELSE ReleaseKids(c.kids, [H EXCEPT !.cells[v.ptr] = FreeCell])
ReleaseKids(ks, H) ==
  IF ks = <<>> THEN H ELSE ReleaseKids(Tail(ks), Release(Head(ks), H))

(***************************************************************************)
(* variant( const variant& ): a deep copy into fresh cells.  [v, H]        *)
(***************************************************************************)
variant_copy(v, H) ==
  Realize(Abs(v, H.cells), H)

\* a move constructor that forgets to reset its source
variant_move_keeps_source(v) ==
  [dst |-> v, src |-> v]

(***************************************************************************)
(* variant( variant&& ): the destination takes the 16 bytes, the source    *)
(* becomes null_type.  [dst, src]                                          *)
(***************************************************************************)
variant_move(v) ==
  [dst |-> v, src |-> NullVar]

(***************************************************************************)
(* ~variant()                                                              *)
(***************************************************************************)
variant_dtor(v, H) ==
  Release(v, H)

(***************************************************************************)
(* variant& operator=( variant&& v ): same is (this == &v).  [dst, src, H] *)
(***************************************************************************)
operator_assign_move(dst, src, same, H) ==
  IF same THEN [dst |-> dst, src |-> dst, H |-> H]
  ELSE [dst |-> src, src |-> NullVar, H |-> Release(dst, H)]

(***************************************************************************)
(* variant& operator=( const variant& v ).  [dst, src, H]                  *)
(***************************************************************************)
operator_assign_copy(dst, src, same, H) ==
  IF same THEN [dst |-> dst, src |-> dst, H |-> H]
  ELSE LET c == variant_copy(src, Release(dst, H))
       IN [dst |-> c.v, src |-> src, H |-> c.H]

\* operator=( T&& ) that moves from its argument instead of forwarding it
operator_assign_T_moves(dst, src, H) ==
  LET tmp == variant_move(src)
      r == operator_assign_move(dst, tmp.dst, FALSE, H)
  IN [dst |-> r.dst, src |-> tmp.src, H |-> variant_dtor(r.src, r.H)]

\* operator=( T&& ) that constructs over *this without releasing what it held
operator_assign_T_no_release(dst, src, H) ==
  LET tmp == variant_copy(src, H)
  IN [dst |-> tmp.v, src |-> src, H |-> tmp.H]

(***************************************************************************)
(* template<typename T> variant& operator=( T&& v ) with T = variant&:     *)
(*   *this = variant( fc::forward<T>(v) );                                 *)
(* the temporary is copy-constructed, move-assigned from and destroyed.    *)
(***************************************************************************)
operator_assign_T(dst, src, H) ==
  LET tmp == variant_copy(src, H)
      r == operator_assign_move(dst, tmp.v, FALSE, tmp.H)
  IN [dst |-> r.dst, src |-> src, H |-> variant_dtor(r.src, r.H)]

(***************************************************************************)
(* template<typename T> variant& operator=( T&& v ) with T a value that a  *)
(* typed constructor takes (a is that value).                              *)
(***************************************************************************)
operator_assign_value(dst, a, H) ==
  LET tmp == Realize(a, H)
      r == operator_assign_move(dst, tmp.v, FALSE, tmp.H)
  IN [dst |-> r.dst, H |-> variant_dtor(r.src, r.H)]

(***************************************************************************)
(* The accessors.  [ok, v, H]: ok is FALSE when the call throws.           *)
(***************************************************************************)
\* a mutable get_array() without the promotion of null_type
get_array_no_promotion(v, H) ==
  [ok |-> v.type = array_type, v |-> v, H |-> H]

\* variants& get_array():  @throw if get_type() != array_type | null_type
get_array(v, H) ==
  IF v.type = array_type THEN [ok |-> TRUE, v |-> v, H |-> H]
  ELSE IF v.type = null_type
    THEN [ok |-> TRUE, v |-> MkVar(array_type, 0, NewHandle(H)),
          H |-> AllocCell(H, array_type, "", <<>>, <<>>)]
  ELSE [ok |-> FALSE, v |-> v, H |-> H]

\* variant_object& get_object():  @throw if get_type() != object_type | null_type
get_object(v, H) ==
  IF v.type = object_type THEN [ok |-> TRUE, v |-> v, H |-> H]
  ELSE IF v.type = null_type
    THEN [ok |-> TRUE, v |-> MkVar(object_type, 0, NewHandle(H)),
          H |-> AllocCell(H, object_type, "", <<>>, <<>>)]
  ELSE [ok |-> FALSE, v |-> v, H |-> H]

\* const variants& get_array()const:  @throw if get_type() != array_type
get_array_const(v, H) ==
  [ok |-> v.type = array_type, v |-> v, H |-> H]

\* const variant_object& get_object()const:  @throw if get_type() != object_type
get_object_const(v, H) ==
  [ok |-> v.type = object_type, v |-> v, H |-> H]

\* const string& get_string()const:  @pre get_type() == string_type
get_string(v, H) ==
  [ok |-> v.type = string_type, v |-> v, H |-> H]

(***************************************************************************)
(* Part A: the actions.                                                    *)
(***************************************************************************)
CurH == Heap(cells, wild)
AbsOf(k) == Abs(slot[k], cells)
Room(n) == Cardinality({h \in Handles : cells[h].st = "free"}) >= n

\* what the typed constructors are called with: one value of each kind
CtorValues ==
  { VNull, VInt(42), VScalar(uint64_type, 7), VScalar(double_type, 39),
    VScalar(bool_type, 1), VStr("a"), VArr(<<VInt(42)>>), VObj(<<"k">>, <<VStr("a")>>) }

\* the values the life-cycle specification constructs
LifeValues ==
  { VNull, VInt(42), VStr("a"), VArr(<<>>), VObj(<<"k">>, <<VStr("a")>>) }

\* what v = a is called with
AssignValues == {VInt(42), VStr("a")}

\* The label of a step.  Two labels remember the step before: a destruction
\* that follows a move ("dtor_m"), and a mutation that follows a copy ("mutate_c").
Label(op) ==
  IF op = "dtor" /\ last.op \in {"move", "dtor_m"} THEN "dtor_m"
  ELSE IF op = "mutate" /\ last.op \in {"copy", "mutate_c"} THEN "mutate_c"
  ELSE op

\* a move of a heap payload, or of an inline value
MoveLabel(v) == IF IsHeapType(v.type) THEN "move" ELSE "move_inline"

Commit(op, sl, H) ==
  /\ slot' = sl
  /\ cells' = H.cells
  /\ wild' = H.wild
  /\ last' = [op |-> Label(op), dst |-> 0, ok |-> TRUE]
  /\ UNCHANGED <<varsO, varsB, varsP, varsC>>

\* variant v_i( a );
Construct(i, a) ==
  /\ ~slot[i].alive
  /\ Room(Nodes(a))
  /\ LET r == Realize(a, CurH)
     IN Commit("ctor", [slot EXCEPT ![i] = r.v], r.H)

\* variant v_i( v_j );
CopyConstruct(i, j) ==
  /\ i # j /\ ~slot[i].alive /\ slot[j].alive
  /\ Room(Nodes(AbsOf(j)))
  /\ LET r == variant_copy(slot[j], CurH)
     IN Commit("copy", [slot EXCEPT ![i] = r.v], r.H)

\* variant v_i( std::move(v_j) );
MoveConstruct(i, j) ==
  /\ i # j /\ ~slot[i].alive /\ slot[j].alive
  /\ LET r == variant_move(slot[j])
     IN Commit(MoveLabel(slot[j]), [slot EXCEPT ![i] = r.dst, ![j] = r.src],
               CurH)

\* v_i = std::move(v_j);
AssignMove(i, j) ==
  /\ slot[i].alive /\ slot[j].alive
  /\ LET r == operator_assign_move(slot[i], slot[j], i = j, CurH)
     IN Commit(IF i = j THEN "self_move" ELSE MoveLabel(slot[j]), [slot EXCEPT ![j] = r.src, ![i] = r.dst],
               r.H)

\* v_i = v_j;  with v_j a const variant
AssignCopy(i, j) ==
  /\ slot[i].alive /\ slot[j].alive
  /\ Room(Nodes(AbsOf(j)))
  /\ LET r == operator_assign_copy(slot[i], slot[j], i = j, CurH)
     IN Commit(IF i = j THEN "self_copy" ELSE "copy", [slot EXCEPT ![j] = r.src, ![i] = r.dst],
               r.H)

\* v_i = v_j;  with v_j a non-const variant: the template operator=( T&& )
AssignT(i, j) ==
  /\ slot[i].alive /\ slot[j].alive
  /\ Room(Nodes(AbsOf(j)))
  /\ LET r == operator_assign_T(slot[i], slot[j], CurH)
     IN Commit(IF i = j THEN "self_copy" ELSE "copy", [slot EXCEPT ![j] = r.src, ![i] = r.dst],
               r.H)

\* v_i = a;  with a a value of a typed constructor: the template operator=( T&& )
AssignValue(i, a) ==
  /\ slot[i].alive
  /\ Room(Nodes(a))
  /\ LET r == operator_assign_value(slot[i], a, CurH)
     IN Commit("ctor", [slot EXCEPT ![i] = r.dst], r.H)

\* v_i goes out of scope
Destroy(i) ==
  /\ slot[i].alive
  /\ Commit("dtor", [slot EXCEPT ![i] = DeadSlot],
            variant_dtor(slot[i], CurH))

Access(op, i, r) ==
  /\ slot' = [slot EXCEPT ![i] = r.v]
  /\ cells' = r.H.cells
  /\ wild' = r.H.wild
  /\ last' = [op |-> op, dst |-> i, ok |-> r.ok]
  /\ UNCHANGED <<varsO, varsB, varsP, varsC>>

GetArray(i) ==
  /\ slot[i].alive /\ Room(1)
  /\ Access("get_array", i, get_array(slot[i], CurH))

GetObject(i) ==
  /\ slot[i].alive /\ Room(1)
  /\ Access("get_object", i, get_object(slot[i], CurH))

GetArrayConst(i) ==
  /\ slot[i].alive
  /\ Access("get_array_const", i, get_array_const(slot[i], CurH))

GetObjectConst(i) ==
  /\ slot[i].alive
  /\ Access("get_object_const", i, get_object_const(slot[i], CurH))

GetString(i) ==
  /\ slot[i].alive
  /\ Access("get_string", i, get_string(slot[i], CurH))

\* v_i.get_array().push_back( a ): the vector copy-constructs its new element
PushBack(i, a) ==
  /\ slot[i].alive /\ slot[i].type = array_type
  /\ Len(cells[slot[i].ptr].kids) < MaxLen
  /\ Depth(a) + 1 <= MaxDepth
  /\ Room(Nodes(a))
  /\ LET r == Realize(a, CurH)
         H == [r.H EXCEPT !.cells[slot[i].ptr].kids = Append(@, r.v)]
     IN Commit("mutate", slot, H)

\* v_i.get_array().pop_back(): the vector destroys its last element
PopBack(i) ==
  /\ slot[i].alive /\ slot[i].type = array_type
  /\ Len(cells[slot[i].ptr].kids) > 0
  /\ LET ks == cells[slot[i].ptr].kids
         H0 == variant_dtor(ks[Len(ks)], CurH)
         H == [H0 EXCEPT !.cells[slot[i].ptr].kids = SubSeq(ks, 1, Len(ks) - 1)]
     IN Commit("mutate", slot, H)

PushValues == {VInt(42)} \cup {AbsOf(k) : k \in {n \in Names : slot[n].alive /\ IsHeapType(slot[n].type)}}

(***************************************************************************)
(* Part C: time.hpp.  An int64_t is its two's complement representation:   *)
(* eight bytes, least significant first.  Signed overflow is undefined;    *)
(* the arithmetic below gives the wrapped result, and the actions let an   *)
(* overflowing operation either wrap or end the program.                   *)
(***************************************************************************)
MaxSteps == 2
Bytes == 8
Radix == 256

RECURSIVE Fill(_, _)
Fill(n, b) == IF n = 0 THEN <<>> ELSE <<b>> \o Fill(n - 1, b)

\* the representation of 0 <= n < 2^31
FromNat(n) ==
  <<n % Radix, (n \div Radix) % Radix, (n \div (Radix * Radix)) % Radix,
    n \div (Radix * Radix * Radix)>> \o Fill(Bytes - 4, 0)

Zero == FromNat(0)
One == FromNat(1)
IsNegative(a) == a[Len(a)] >= Radix \div 2

RECURSIVE AddBytes(_, _, _, _)
AddBytes(a, b, i, c) ==
  IF i > Len(a) THEN <<>>
  ELSE LET t == a[i] + b[i] + c
       IN <<t % Radix>> \o AddBytes(a, b, i + 1, t \div Radix)

Add(a, b) == AddBytes(a, b, 1, 0)

RECURSIVE Complement(_)
Complement(a) ==
  IF a = <<>> THEN <<>> ELSE <<Radix - 1 - Head(a)>> \o Complement(Tail(a))

Neg(a) == Add(Complement(a), [One EXCEPT ![1] = 1])
Sub(a, b) == AddBytes(a, Complement(b), 1, 1)

RECURSIVE Column(_, _, _, _)
Column(a, b, k, i) ==
  IF i > k THEN 0 ELSE a[i] * b[k + 1 - i] + Column(a, b, k, i + 1)

RECURSIVE MulBytes(_, _, _, _)
MulBytes(a, b, k, c) ==
  IF k > Len(a) THEN <<>>
  ELSE LET t == Column(a, b, k, 1) + c
       IN <<t % Radix>> \o MulBytes(a, b, k + 1, t \div Radix)

Mul(a, b) == MulBytes(a, b, 1, 0)

\* the same value in twice the width
Extend(a) == a \o Fill(Len(a), IF IsNegative(a) THEN Radix - 1 ELSE 0)

RECURSIVE BelowFrom(_, _, _)
BelowFrom(a, b, i) ==
  IF i = 0 THEN FALSE
  ELSE IF a[i] # b[i] THEN a[i] < b[i]
  ELSE BelowFrom(a, b, i - 1)

\* a < b on int64_t
Less(a, b) ==
  IF IsNegative(a) # IsNegative(b) THEN IsNegative(a) ELSE BelowFrom(a, b, Len(a))

AddOverflows(a, b) ==
  IsNegative(a) = IsNegative(b) /\ IsNegative(Add(a, b)) # IsNegative(a)
SubOverflows(a, b) ==
  IsNegative(a) # IsNegative(b) /\ IsNegative(Sub(a, b)) # IsNegative(a)
MulOverflows(a, b) == Mul(Extend(a), Extend(b)) # Extend(Mul(a, b))

\* explicit microseconds( int64_t c = 0 ) :_count(c){}
microseconds(c) == [_count |-> c]

\* static microseconds maximum() { return microseconds(0x7fffffffffffffffll); }
microseconds_maximum == microseconds(Fill(Bytes - 1, Radix - 1) \o <<Radix \div 2 - 1>>)

\* friend microseconds operator + ( l, r ) { return microseconds(l._count+r._count); }
microseconds_plus(l, r) == microseconds(Add(l._count, r._count))

\* bool operator==(const microseconds& c)const { return _count == c._count; }
microseconds_eq(a, c) == a._count = c._count
\* operator>, operator>=, operator<, operator<= on microseconds
microseconds_gt(a, b) == Less(b._count, a._count)
microseconds_ge(a, b) == ~Less(a._count, b._count)
microseconds_lt(a, b) == Less(a._count, b._count)
microseconds_le(a, b) == ~Less(b._count, a._count)

\* microseconds& operator+=(const microseconds& c) { _count += c._count; return *this; }
microseconds_plus_assign(a, c) == [a EXCEPT !._count = Add(a._count, c._count)]

\* int64_t count()const { return _count; }
count(a) == a._count

\* a seconds() that scales by a thousand
seconds_as_milliseconds(s) == microseconds(Mul(s, FromNat(1000)))

\* inline microseconds seconds( int64_t s ) { return microseconds( s * 1000000 ); }
seconds(s) == microseconds(Mul(s, FromNat(1000000)))

\* inline microseconds milliseconds( int64_t s ) { return microseconds( s * 1000 ); }
milliseconds(s) == microseconds(Mul(s, FromNat(1000)))

\* explicit time_point( microseconds e = microseconds() ) :elapsed(e){}
time_point(e) == [elapsed |-> e]

\* static time_point maximum() { return time_point( microseconds::maximum() ); }
time_point_maximum == time_point(microseconds_maximum)

\* const microseconds& time_since_epoch()const { return elapsed; }
time_since_epoch(t) == t.elapsed

\* operator >, >=, <, <=, ==, != on time_point
time_point_gt(a, t) == Less(t.elapsed._count, a.elapsed._count)
time_point_ge(a, t) == ~Less(a.elapsed._count, t.elapsed._count)
time_point_lt(a, t) == Less(a.elapsed._count, t.elapsed._count)
time_point_le(a, t) == ~Less(t.elapsed._count, a.elapsed._count)
time_point_eq(a, t) == a.elapsed._count = t.elapsed._count
time_point_ne(a, t) == a.elapsed._count # t.elapsed._count

\* time_point& operator += ( const microseconds& m ) { elapsed+=m; return *this; }
time_point_plus_assign(t, m) ==
  [t EXCEPT !.elapsed = microseconds_plus_assign(t.elapsed, m)]

\* friend time_point operator + ( t, m ) { return time_point(t.elapsed+m); }
time_point_plus(t, m) == time_point(microseconds_plus(t.elapsed, m))

\* friend microseconds operator - ( t, m )
\*   { return microseconds(t.elapsed.count() - m.elapsed.count()); }
time_point_minus(t, m) == microseconds(Sub(count(t.elapsed), count(m.elapsed)))

Absent == [has |-> FALSE, val |-> 0]
Present(n) == [has |-> TRUE, val |-> n]
NoVec == [has |-> FALSE, val |-> <<>>]

InitA ==
  /\ slot = [k \in Names |-> DeadSlot]
  /\ cells = [h \in Handles |-> FreeCell]
  /\ wild = 0
  /\ last = [op |-> "none", dst |-> 0, ok |-> TRUE]
  /\ opt = Absent
  /\ arg = Absent

(***************************************************************************)
(* The initial state: no variant constructed, every destination empty.     *)
(***************************************************************************)
Init ==
  /\ InitA
  /\ vec = <<>> /\ vv = <<>> /\ ovec = NoVec /\ uset = {} /\ oset = {}
  /\ var = VNull
  /\ call = [op |-> "none", ok |-> TRUE, built |-> TRUE, path |-> "none"]
  /\ sp = 0 /\ objs = <<>> /\ nobj = 0
  /\ tp = time_point(microseconds(Zero)) /\ d1 = microseconds(Zero)
  /\ d2 = microseconds(Zero) /\ steps = 0 /\ trap = FALSE

NextA ==
  \/ \E i \in Names, a \in LifeValues : Construct(i, a)
  \/ \E i, j \in Names : CopyConstruct(i, j)
  \/ \E i, j \in Names : MoveConstruct(i, j)
  \/ \E i, j \in Names : AssignMove(i, j)
  \/ \E i, j \in Names : AssignCopy(i, j)
  \/ \E i, j \in Names : AssignT(i, j)
  \/ \E i \in Names, a \in AssignValues : AssignValue(i, a)
  \/ \E i \in Names : Destroy(i)
  \/ \E i \in Names : \E a \in PushValues : PushBack(i, a)
  \/ \E i \in Names : PopBack(i)

Spec == Init /\ [][NextA]_vars

(***************************************************************************)
(* The accessors on variants of every kind.                                *)
(***************************************************************************)
NextAccess ==
  \/ \E i \in Names, a \in CtorValues : Construct(i, a)
  \/ \E i \in Names : Destroy(i)
  \/ \E i \in Names : GetArray(i)
  \/ \E i \in Names : GetObject(i)
  \/ \E i \in Names : GetArrayConst(i)
  \/ \E i \in Names : GetObjectConst(i)
  \/ \E i \in Names : GetString(i)
  \/ \E i \in Names : PushBack(i, VInt(42))
  \/ \E i \in Names : PopBack(i)

SpecAccess == Init /\ [][NextAccess]_vars

(***************************************************************************)
(* Part A, continued: optional<T> and the variant.                         *)
(*                                                                         *)
(* template<typename T> variant( const optional<T>& v )                    *)
(*   { if( v ) *this = variant( *v ); }                                    *)
(* has no member initializers: _data and _type hold indeterminate bytes g  *)
(* when the body runs.  An absent optional leaves them; a present one      *)
(* move-assigns over them.                                                 *)
(***************************************************************************)
IntVals == {0, 5}
OptInputs == {Absent} \cup {Present(n) : n \in IntVals}
BadTag == object_type + 1      \* any byte that is no type_id

\* the indeterminate bytes of an object that was not initialized
Uninit ==
  {MkVar(t, d, 0) : t \in {null_type, int64_type, uint64_type, double_type, bool_type, BadTag},
                    d \in IntVals}
    \cup {MkVar(t, 0, p) : t \in {string_type, array_type, object_type}, p \in 0..MaxHandles}

variant_optional_ctor(g, o, H) ==
  IF o.has
  THEN LET tmp == Realize(VInt(o.val), H)
           r == operator_assign_move(g, tmp.v, FALSE, tmp.H)
       IN [v |-> r.dst, H |-> variant_dtor(r.src, r.H)]
  ELSE [v |-> g, H |-> H]

\* bool is_null()const
is_null(v) == v.type = null_type

\* void from_variant( const variant& var, int64_t& vo ): the outcomes [ok, val].
\* An Int64 answers with its value.  For every other tag the answer is left open
\* here: any value, or a throw.
from_variant_int64(v) ==
  IF v.type = int64_type THEN {[ok |-> TRUE, val |-> v.data]}
  ELSE {[ok |-> FALSE, val |-> 0]} \cup {[ok |-> TRUE, val |-> n] : n \in IntVals}

\* template<typename T> void from_variant( const variant& var, optional<T>& vo )
\* with T = int64_t: the outcomes [ok, vo]
from_variant_optional(v, vo) ==
  IF is_null(v) THEN {[ok |-> TRUE, vo |-> Absent]}
  ELSE {[ok |-> r.ok, vo |-> IF r.ok THEN Present(r.val) ELSE Present(0)] :
          r \in from_variant_int64(v)}

\* variant v_i( o );  with o an optional<int64_t>
ConstructOptional(i, o) ==
  /\ ~slot[i].alive
  /\ Room(1)
  /\ \E g \in Uninit :
       LET r == variant_optional_ctor(g, o, CurH)
       IN /\ slot' = [slot EXCEPT ![i] = r.v]
          /\ cells' = r.H.cells
          /\ wild' = r.H.wild
  /\ last' = [op |-> "opt_ctor", dst |-> i, ok |-> TRUE]
  /\ arg' = o
  /\ UNCHANGED <<opt, varsB, varsP, varsC>>

\* from_variant( v_i, opt );
FromVariantOptional(i) ==
  /\ slot[i].alive
  /\ \E r \in from_variant_optional(slot[i], opt) :
       /\ opt' = r.vo
       /\ last' = [op |-> "from_optional", dst |-> i, ok |-> r.ok]
  /\ UNCHANGED <<slot, cells, wild, arg, varsB, varsP, varsC>>

OptValues == {VNull, VInt(5), VStr("a")}

NextOpt ==
  \/ \E i \in Names, o \in OptInputs : ConstructOptional(i, o)
  \/ \E i \in Names, a \in OptValues : Construct(i, a)
  \/ \E i \in Names : Destroy(i)
  \/ \E i \in Names : FromVariantOptional(i)

SpecOpt == Init /\ [][NextOpt]_vars

(***************************************************************************)
(* Part B: the conversion protocol, on variants by value.                  *)
(***************************************************************************)
MaxElem == 2
MaxVec == 2
MaxObjs == 4

Elems == 1..MaxElem
SeqsUpTo(S, n) == UNION {[1..k -> S] : k \in 0..n}
Only(S) == CHOOSE x \in S : TRUE

\* variant( int64_t val )
variant_int64(n) == VInt(n)

\* T as()const with T = int64_t:  T tmp; from_variant( *this, tmp ); return tmp;
\* the elements converted below are all Int64, where the outcome is single
as_int64_t(v) == Only(from_variant_int64(v))

RECURSIVE ToVariants(_)
ToVariants(t) ==
  IF t = <<>> THEN <<>> ELSE <<variant_int64(Head(t))>> \o ToVariants(Tail(t))

\* template<typename T> void to_variant( const std::vector<T>& t, variant& v )
\* with T = int64_t: vars[i] = variant(t[i]); v = vars;
to_variant_vector(t) == VArr(ToVariants(t))

\* the loop of from_variant: tmp.push_back( itr->as<T>() ), T = int64_t;
\* a throw of as<T>() leaves what was pushed so far
RECURSIVE PushBackAll(_, _)
PushBackAll(ks, tmp) ==
  IF ks = <<>> THEN [ok |-> TRUE, tmp |-> tmp]
  ELSE LET r == as_int64_t(Head(ks))
       IN IF r.ok THEN PushBackAll(Tail(ks), Append(tmp, r.val))
          ELSE [ok |-> FALSE, tmp |-> tmp]

\* template<typename T> void from_variant( const variant& var, std::vector<T>& tmp )
\* with T = int64_t: get_array() const throws unless array_type; then
\* tmp.clear(); tmp.reserve(); and the loop.  [ok, tmp]
from_variant_vector(v, tmp) ==
  IF v.type # array_type THEN [ok |-> FALSE, tmp |-> tmp]
  ELSE PushBackAll(v.kids, <<>>)

\* T as()const with T = std::vector<int64_t>
as_vector(v) ==
  LET r == from_variant_vector(v, <<>>) IN [ok |-> r.ok, val |-> r.tmp]

RECURSIVE PushBackAllVectors(_, _)
PushBackAllVectors(ks, tmp) ==
  IF ks = <<>> THEN [ok |-> TRUE, tmp |-> tmp]
  ELSE LET r == as_vector(Head(ks))
       IN IF r.ok THEN PushBackAllVectors(Tail(ks), Append(tmp, r.val))
          ELSE [ok |-> FALSE, tmp |-> tmp]

\* from_variant( const variant& var, std::vector<T>& tmp ) with T = std::vector<int64_t>
from_variant_vector_vector(v, tmp) ==
  IF v.type # array_type THEN [ok |-> FALSE, tmp |-> tmp]
  ELSE PushBackAllVectors(v.kids, <<>>)

\* from_variant( const variant& var, optional<T>& vo ) with T = std::vector<int64_t>:
\* vo = T(); from_variant( var, *vo );
from_variant_optional_vector(v, vo) ==
  IF is_null(v) THEN [ok |-> TRUE, vo |-> NoVec]
  ELSE LET r == from_variant_vector(v, <<>>)
       IN [ok |-> r.ok, vo |-> [has |-> TRUE, val |-> r.tmp]]

\* the orders in which a container holding the set S can be iterated
Orders(S) ==
  {o \in [1..Cardinality(S) -> S] : \A a, b \in 1..Cardinality(S) : o[a] = o[b] => a = b}
Range(q) == {q[n] : n \in 1..Len(q)}
\* std::set iterates in ascending order
Ascending(S) == CHOOSE o \in Orders(S) : \A a, b \in 1..Cardinality(S) : a < b => o[a] < o[b]

\* to_variant( const std::unordered_set<T>& var, variant& vo ): vars[i] = variant(*itr),
\* in the iteration order o of the container
to_variant_unordered_set(o) == VArr(ToVariants(o))

\* to_variant( const std::set<T>& var, variant& vo )
to_variant_set(S) == VArr(ToVariants(Ascending(S)))

RECURSIVE InsertAll(_, _)
InsertAll(ks, vo) ==
  IF ks = <<>> THEN [ok |-> TRUE, vo |-> vo]
  ELSE LET r == as_int64_t(Head(ks))
       IN IF r.ok THEN InsertAll(Tail(ks), vo \cup {r.val})
          ELSE [ok |-> FALSE, vo |-> vo]

\* the member functions from_variant calls on its destination
HasMember(container, member) ==
  \/ member \in {"clear", "insert"}
  \/ member = "reserve" /\ container \in {"vector", "unordered_set"}

\* from_variant( const variant& var, std::unordered_set<T>& vo ):
\* vo.clear(); vo.reserve( vars.size() ); vo.insert( itr->as<T>() )
from_variant_unordered_set(v, vo) ==
  IF v.type # array_type THEN [built |-> TRUE, ok |-> FALSE, vo |-> vo]
  ELSE LET r == InsertAll(v.kids, {}) IN [built |-> TRUE, ok |-> r.ok, vo |-> r.vo]

\* from_variant( const variant& var, std::set<T>& vo ): the same body; it calls
\* vo.reserve(), which std::set does not have, so no instantiation builds
from_variant_set(v, vo) ==
  IF ~HasMember("set", "reserve") THEN [built |-> FALSE, ok |-> FALSE, vo |-> vo]
  ELSE IF v.type # array_type THEN [built |-> TRUE, ok |-> FALSE, vo |-> vo]
  ELSE LET r == InsertAll(v.kids, {}) IN [built |-> TRUE, ok |-> r.ok, vo |-> r.vo]

\* the inputs
VecInputs == SeqsUpTo(Elems, MaxVec)
SetInputs == SUBSET Elems
IntArrays == {to_variant_vector(t) : t \in VecInputs}
NonArrays == {VNull, VInt(1), VStr("a")}
VecSources == IntArrays \cup NonArrays
VVSources == {VArr(q) : q \in SeqsUpTo(IntArrays \cup {VInt(1)}, MaxVec)} \cup NonArrays

Called(op, ok) == [op |-> op, ok |-> ok, built |-> TRUE, path |-> "none"]

\* to_variant( t, var );
ToVariantVector(t) ==
  /\ var' = to_variant_vector(t)
  /\ call' = Called("to_vector", TRUE)
  /\ UNCHANGED <<vec, vv, ovec, uset, oset, varsA, varsO, varsP, varsC>>

\* from_variant( src, vec );
FromVariantVector(src) ==
  /\ LET r == from_variant_vector(src, vec)
     IN vec' = r.tmp /\ call' = Called("from_vector", r.ok)
  /\ UNCHANGED <<var, vv, ovec, uset, oset, varsA, varsO, varsP, varsC>>

\* to_variant( S, var );  S a std::unordered_set iterated in the order o
ToVariantUnorderedSet(o) ==
  /\ var' = to_variant_unordered_set(o)
  /\ call' = Called("to_unordered_set", TRUE)
  /\ UNCHANGED <<vec, vv, ovec, uset, oset, varsA, varsO, varsP, varsC>>

\* from_variant( src, uset );
FromVariantUnorderedSet(src) ==
  /\ LET r == from_variant_unordered_set(src, uset)
     IN uset' = r.vo /\ call' = Called("from_unordered_set", r.ok)
  /\ UNCHANGED <<var, vec, vv, ovec, oset, varsA, varsO, varsP, varsC>>

\* to_variant( S, var );  S a std::set
ToVariantSet(S) ==
  /\ var' = to_variant_set(S)
  /\ call' = Called("to_set", TRUE)
  /\ UNCHANGED <<vec, vv, ovec, uset, oset, varsA, varsO, varsP, varsC>>

\* from_variant( src, oset );
FromVariantSet(src) ==
  /\ LET r == from_variant_set(src, oset)
     IN /\ oset' = r.vo
        /\ call' = [op |-> "from_set", ok |-> r.ok, built |-> r.built, path |-> "none"]
  /\ UNCHANGED <<var, vec, vv, ovec, uset, varsA, varsO, varsP, varsC>>

NextConv ==
  \/ \E t \in VecInputs : ToVariantVector(t)
  \/ \E src \in VecSources \cup {var} : FromVariantVector(src)
  \/ \E S \in SetInputs : \E o \in Orders(S) : ToVariantUnorderedSet(o)
  \/ \E src \in VecSources \cup {var} : FromVariantUnorderedSet(src)
  \/ \E S \in SetInputs : ToVariantSet(S)
  \/ \E src \in VecSources \cup {var} : FromVariantSet(src)

SpecConv == Init /\ [][NextConv]_vars

\* from_variant( src, vv );
FromVariantVectorVector(src) ==
  /\ LET r == from_variant_vector_vector(src, vv)
     IN vv' = r.tmp /\ call' = Called("from_vector_vector", r.ok)
  /\ UNCHANGED <<var, vec, ovec, uset, oset, varsA, varsO, varsP, varsC>>

\* from_variant( src, ovec );
FromVariantOptionalVector(src) ==
  /\ LET r == from_variant_optional_vector(src, ovec)
     IN ovec' = r.vo /\ call' = Called("from_optional_vector", r.ok)
  /\ UNCHANGED <<var, vec, vv, uset, oset, varsA, varsO, varsP, varsC>>

NextFail ==
  \/ \E src \in VVSources : FromVariantVectorVector(src)
  \/ \E src \in VecSources : FromVariantOptionalVector(src)

SpecFail == Init /\ [][NextFail]_vars

(***************************************************************************)
(* shared_ptr<T> with T = std::vector<int64_t>.  sp is the object the      *)
(* pointer owns (0 when empty), objs the objects ever made, nobj their     *)
(* number; the pointer is the only owner, so a reset destroys the object.  *)
(***************************************************************************)
MaxPointee == 1
NewObj == [live |-> TRUE, val |-> <<>>]
DeadObj == [live |-> FALSE, val |-> <<>>]

\* to_variant( const std::shared_ptr<T>& var, variant& vo ):
\* if( var ) to_variant( *var, vo ); else vo = nullptr;
to_variant_shared_ptr(p, os) ==
  IF p # 0 THEN to_variant_vector(os[p].val) ELSE VNull

\* a from_variant that makes a fresh object on every non-null source
from_variant_shared_ptr_always_new(v, p, os) ==
  IF is_null(v)
  THEN [ok |-> TRUE, path |-> "reset", sp |-> 0,
        objs |-> IF p # 0 THEN [os EXCEPT ![p] = DeadObj] ELSE os]
  ELSE LET r == from_variant_vector(v, <<>>)
           dropped == IF p # 0 THEN [os EXCEPT ![p] = DeadObj] ELSE os
       IN [ok |-> r.ok, path |-> IF p # 0 THEN "in_place" ELSE "make_shared",
           sp |-> Len(os) + 1,
           objs |-> Append(dropped, [live |-> TRUE, val |-> r.tmp])]

\* from_variant( const variant& var, std::shared_ptr<T>& vo ):
\* if( var.is_null() ) vo = nullptr;
\* else if( vo ) from_variant( var, *vo );
\* else { vo = std::make_shared<T>(); from_variant( var, *vo ); }
from_variant_shared_ptr(v, p, os) ==
  IF is_null(v)
  THEN [ok |-> TRUE, path |-> "reset", sp |-> 0,
        objs |-> IF p # 0 THEN [os EXCEPT ![p] = DeadObj] ELSE os]
  ELSE IF p # 0
  THEN LET r == from_variant_vector(v, os[p].val)
       IN [ok |-> r.ok, path |-> "in_place", sp |-> p,
           objs |-> [os EXCEPT ![p].val = r.tmp]]
  ELSE LET r == from_variant_vector(v, NewObj.val)
       IN [ok |-> r.ok, path |-> "make_shared", sp |-> Len(os) + 1,
           objs |-> Append(os, [NewObj EXCEPT !.val = r.tmp])]

\* the sources converted into the shared_ptr
PtrInputs == SeqsUpTo(Elems, MaxPointee)
PtrSources == {to_variant_vector(t) : t \in PtrInputs} \cup NonArrays

\* to_variant( sp, var );
ToVariantSharedPtr ==
  /\ var' = to_variant_shared_ptr(sp, objs)
  /\ call' = Called("to_shared_ptr", TRUE)
  /\ UNCHANGED <<vec, vv, ovec, uset, oset, varsP, varsA, varsO, varsC>>

\* from_variant( src, sp );
FromVariantSharedPtr(src) ==
  /\ nobj < MaxObjs
  /\ LET r == from_variant_shared_ptr(src, sp, objs)
     IN /\ sp' = r.sp
        /\ objs' = r.objs
        /\ nobj' = Len(r.objs)
        /\ call' = [op |-> "from_shared_ptr", ok |-> r.ok, built |-> TRUE, path |-> r.path]
  /\ UNCHANGED <<var, vec, vv, ovec, uset, oset, varsA, varsO, varsC>>

NextPtr ==
  \/ ToVariantSharedPtr
  \/ \E src \in PtrSources \cup {var} : FromVariantSharedPtr(src)

SpecPtr == Init /\ [][NextPtr]_vars

(***************************************************************************)
(* Part C: the operations of time.hpp on a time_point tp and two           *)
(* durations d1, d2.                                                        *)
(***************************************************************************)
CountInputs ==
  {Zero, Neg(One), count(microseconds_maximum), Add(count(microseconds_maximum), One)}
SecondsInputs == {One, FromNat(5), count(microseconds_maximum)}
MillisecondsInputs == {FromNat(500), Neg(One)}

\* the operation completes with the wrapped value, or, when it overflows,
\* may instead end the program; n is 1 for the operations that can be chained
Finish(overflows, n, t, a, b) ==
  /\ ~trap /\ steps + n <= MaxSteps /\ (n = 0 => steps = 0)
  /\ steps' = steps + n
  /\ \/ trap' = FALSE /\ tp' = t /\ d1' = a /\ d2' = b
     \/ overflows /\ trap' = TRUE /\ UNCHANGED <<tp, d1, d2>>
  /\ UNCHANGED <<varsA, varsO, varsB, varsP>>

\* d1 = microseconds(c);  the operands are made before the arithmetic starts
Microseconds(c) ==
  /\ ~trap /\ steps = 0
  /\ d1' = microseconds(c)
  /\ UNCHANGED <<tp, d2, steps, trap, varsA, varsO, varsB, varsP>>

\* d2 = d1;
KeepDuration ==
  /\ ~trap /\ steps = 0
  /\ d2' = d1
  /\ UNCHANGED <<tp, d1, steps, trap, varsA, varsO, varsB, varsP>>

\* tp = time_point(d1);
TimePoint ==
  /\ ~trap /\ steps = 0
  /\ tp' = time_point(d1)
  /\ UNCHANGED <<d1, d2, steps, trap, varsA, varsO, varsB, varsP>>

\* d1 = seconds(s);
Seconds(s) == Finish(MulOverflows(s, FromNat(1000000)), 0, tp, seconds(s), d2)

\* d1 = milliseconds(s);
Milliseconds(s) == Finish(MulOverflows(s, FromNat(1000)), 0, tp, milliseconds(s), d2)

\* d1 = d1 + d2;
Plus == Finish(AddOverflows(count(d1), count(d2)), 1, tp, microseconds_plus(d1, d2), d2)

\* d1 += d2;
PlusAssign ==
  Finish(AddOverflows(count(d1), count(d2)), 1, tp, microseconds_plus_assign(d1, d2), d2)

\* tp = tp + d1;
TimePointPlus ==
  Finish(AddOverflows(count(time_since_epoch(tp)), count(d1)), 1,
         time_point_plus(tp, d1), d1, d2)

\* tp += d1;
TimePointPlusAssign ==
  Finish(AddOverflows(count(time_since_epoch(tp)), count(d1)), 1,
         time_point_plus_assign(tp, d1), d1, d2)

\* d1 = tp - time_point(d2);
TimePointMinus ==
  Finish(SubOverflows(count(time_since_epoch(tp)), count(d2)), 1,
         tp, time_point_minus(tp, time_point(d2)), d2)

NextTime ==
  \/ \E c \in CountInputs : Microseconds(c)
  \/ KeepDuration
  \/ TimePoint
  \/ \E s \in SecondsInputs : Seconds(s)
  \/ \E s \in MillisecondsInputs : Milliseconds(s)
  \/ Plus
  \/ PlusAssign
  \/ TimePointPlus
  \/ TimePointPlusAssign
  \/ TimePointMinus

SpecTime == Init /\ [][NextTime]_vars

(***************************************************************************)
(* Ownership of the heap.                                                  *)
(***************************************************************************)
SlotRefs(h) ==
  {k \in Names : slot[k].alive /\ IsHeapType(slot[k].type) /\ slot[k].ptr = h}
KidRefs(h) ==
  {p \in UNION {{<<g, n>> : n \in 1..Len(cells[g].kids)} : g \in Handles} :
     /\ cells[p[1]].st = "live"
     /\ IsHeapType(cells[p[1]].kids[p[2]].type)
     /\ cells[p[1]].kids[p[2]].ptr = h}
RefCount(h) == Cardinality(SlotRefs(h)) + Cardinality(KidRefs(h))
RefKinds(h) ==
  {slot[k].type : k \in SlotRefs(h)} \cup {cells[p[1]].kids[p[2]].type : p \in KidRefs(h)}
Live(cs) == Cardinality({h \in Handles : cs[h].st = "live"})
AllDead == \A k \in Names : ~slot[k].alive

\* every live cell has exactly one owner, of its kind; no free cell is referred
\* to; nothing was released twice
HeapSound ==
  /\ wild = 0
  /\ \A h \in Handles :
       IF cells[h].st = "live"
       THEN RefCount(h) = 1 /\ RefKinds(h) = {cells[h].kind}
       ELSE RefCount(h) = 0

(***************************************************************************)
(* C1: every live variant has one of the eight tags; a variant of tag      *)
(* String, Array or Object owns a live cell of that kind, and a variant of *)
(* an inline tag owns no handle.                                           *)
(***************************************************************************)
\* C1: in every state, each live variant's tag is valid and matches its payload
C1_TagMatchesPayload ==
  \A k \in Names :
    slot[k].alive =>
      /\ slot[k].type \in TypeIds
      /\ IsHeapType(slot[k].type) =>
           /\ slot[k].ptr \in Handles
           /\ cells[slot[k].ptr].st = "live"
           /\ cells[slot[k].ptr].kind = slot[k].type
      /\ IsInlineType(slot[k].type) => slot[k].ptr = 0

(***************************************************************************)
(* C8: a variant made from an absent optional is null_type and owns no     *)
(* handle, one made from a present optional is the variant of the held     *)
(* value; from_variant gives absent for null_type and otherwise the        *)
(* converted value; optional -> variant -> optional is the identity.       *)
(***************************************************************************)
C8_Step ==
  \A i \in Names :
    /\ \A o \in OptInputs :
         ConstructOptional(i, o) =>
           /\ slot'[i].type = IF o.has THEN int64_type ELSE null_type
           /\ o.has => slot'[i].data = o.val
           /\ slot'[i].ptr = 0
    /\ FromVariantOptional(i) =>
         /\ slot[i].type = null_type => opt' = Absent
         /\ slot[i].type = int64_type => opt' = Present(slot[i].data)
         /\ (last.op = "opt_ctor" /\ last.dst = i) => opt' = arg
\* C8: every optional construction and every from_variant into an optional
\* maps absent <-> null_type and present <-> the held value
C8_OptionalMapping == [][C8_Step]_vars

\* the part of C8 the code keeps: the present case and from_variant
C8_PresentStep ==
  \A i \in Names :
    /\ \A o \in OptInputs :
         (o.has /\ ConstructOptional(i, o)) => slot'[i] = MkVar(int64_type, o.val, 0)
    /\ FromVariantOptional(i) =>
         /\ slot[i].type = null_type => opt' = Absent
         /\ slot[i].type = int64_type => opt' = Present(slot[i].data)
         /\ (last.op = "opt_ctor" /\ last.dst = i /\ arg.has) => opt' = arg
C8_PresentKept == [][C8_PresentStep]_vars

(***************************************************************************)
(* C2: a move from a variant holding a String, Array or Object hands the   *)
(* handle to the destination and leaves the source null_type; no payload   *)
(* is released twice or while a live variant owns it, and once every       *)
(* variant is destroyed every payload has been released.                   *)
(***************************************************************************)
C2_MoveStep ==
  \A i, j \in Names :
    (i # j /\ IsHeapType(slot[j].type) /\ (MoveConstruct(i, j) \/ AssignMove(i, j)))
      => /\ slot'[j].alive /\ slot'[j].type = null_type
         /\ slot'[i].type = slot[j].type
         /\ slot'[i].ptr = slot[j].ptr
         /\ cells'[slot[j].ptr] = cells[slot[j].ptr]
C2_Released ==
  /\ wild = 0
  /\ \A k \in Names :
       (slot[k].alive /\ IsHeapType(slot[k].type))
         => cells[slot[k].ptr].st = "live" /\ SlotRefs(slot[k].ptr) = {k}
  /\ AllDead => \A h \in Handles : cells[h].st = "free"
\* C2: every move of a heap payload transfers the handle and empties the
\* source, and at every moment each payload has one owner and none was
\* released twice
C2_MoveTransfersOnce == []C2_Released /\ [][C2_MoveStep]_vars
\* both variants destroyed right after a move of a heap payload
C2_Witness ==
  /\ last.op = "dtor_m" /\ AllDead
  /\ wild = 0 /\ \A h \in Handles : cells[h].st = "free"

(***************************************************************************)
(* C3: a copy is deep: the copy equals its source, the source is unchanged,*)
(* the two share no cell, and a later operation on one variant leaves the  *)
(* value of the other unchanged.                                           *)
(***************************************************************************)
RECURSIVE Reach(_, _)
Reach(v, cs) ==
  IF ~v.alive \/ ~IsHeapType(v.type) \/ v.ptr \notin Handles THEN {}
  ELSE {v.ptr} \cup UNION {Reach(cs[v.ptr].kids[n], cs) : n \in 1..Len(cs[v.ptr].kids)}
C3_CopyStep ==
  \A i, j \in Names :
    (i # j /\ (CopyConstruct(i, j) \/ AssignCopy(i, j) \/ AssignT(i, j)))
      => /\ Abs(slot'[i], cells') = AbsOf(j)
         /\ Abs(slot'[j], cells') = AbsOf(j)
         /\ Reach(slot'[i], cells') \cap Reach(slot'[j], cells') = {}
C3_OtherUnchanged ==
  \A i \in Names :
    ( \/ Destroy(i) \/ PopBack(i)
      \/ \E a \in PushValues : PushBack(i, a)
      \/ \E a \in AssignValues : AssignValue(i, a)
      \/ \E a \in LifeValues : Construct(i, a)
      \/ \E j \in Names : MoveConstruct(j, i) \/ AssignMove(j, i) )
      => \A k \in Names \ {i} :
           \/ Abs(slot'[k], cells') = AbsOf(k)
           \/ MoveConstruct(k, i) \/ AssignMove(k, i)
\* C3: every copy shares nothing with its source, and every later operation
\* on one variant leaves the other's value as it was
C3_DeepCopy == [][C3_CopyStep /\ C3_OtherUnchanged]_vars
\* a nested array was copied and one of the two was then mutated
C3_Witness ==
  /\ last.op = "mutate_c"
  /\ \A k \in Names : slot[k].alive /\ slot[k].type = array_type
  /\ Depth(AbsOf(1)) = 2
  /\ AbsOf(1) # AbsOf(2)
  /\ Reach(slot[1], cells) \cap Reach(slot[2], cells) = {}

(***************************************************************************)
(* C4: an assignment releases what the destination held, once, and adopts  *)
(* the new value; self-assignment leaves a valid variant, and a copy       *)
(* self-assignment leaves the value unchanged.                             *)
(***************************************************************************)
C4_AssignStep ==
  \A i, j \in Names :
    /\ \A a \in AssignValues :
         AssignValue(i, a)
           => /\ Live(cells') = Live(cells) - Nodes(AbsOf(i)) + Nodes(a)
              /\ Abs(slot'[i], cells') = a
    /\ (i # j /\ AssignMove(i, j))
         => /\ Live(cells') = Live(cells) - Nodes(AbsOf(i))
            /\ Abs(slot'[i], cells') = AbsOf(j)
    /\ (i # j /\ (AssignCopy(i, j) \/ AssignT(i, j)))
         => /\ Live(cells') = Live(cells) - Nodes(AbsOf(i)) + Nodes(AbsOf(j))
            /\ Abs(slot'[i], cells') = AbsOf(j)
    /\ (i = j /\ (AssignCopy(i, j) \/ AssignT(i, j)))
         => /\ Live(cells') = Live(cells)
            /\ Abs(slot'[i], cells') = AbsOf(i)
    /\ (i = j /\ AssignMove(i, j))
         => /\ Live(cells') = Live(cells)
            /\ slot'[i].alive /\ slot'[i].type \in TypeIds
\* C4: every assignment frees exactly the cells the destination held and
\* leaves the heap with one owner per live cell; self-assignment keeps it so
C4_AssignReleasesOnce == []HeapSound /\ [][C4_AssignStep]_vars
\* a variant holding a heap payload was just assigned to itself
C4_Witness ==
  /\ last.op = "self_copy"
  /\ \E k \in Names : slot[k].alive /\ slot[k].type = array_type /\ Depth(AbsOf(k)) = 2
  /\ HeapSound

(***************************************************************************)
(* C6: the mutable get_array()/get_object() succeed exactly on their own   *)
(* tag and on null_type, which they promote to an empty Array/Object; the  *)
(* const accessors and get_string() succeed exactly on their own tag and   *)
(* change nothing.                                                         *)
(***************************************************************************)
Same == slot' = slot /\ cells' = cells /\ wild' = wild
C6_AccessStep ==
  \A i \in Names :
    /\ GetArray(i) =>
         /\ last'.ok <=> slot[i].type \in {array_type, null_type}
         /\ slot[i].type = null_type => Abs(slot'[i], cells') = VArr(<<>>)
         /\ slot[i].type # null_type => Same
    /\ GetObject(i) =>
         /\ last'.ok <=> slot[i].type \in {object_type, null_type}
         /\ slot[i].type = null_type => Abs(slot'[i], cells') = VObj(<<>>, <<>>)
         /\ slot[i].type # null_type => Same
    /\ GetArrayConst(i) => Same /\ (last'.ok <=> slot[i].type = array_type)
    /\ GetObjectConst(i) => Same /\ (last'.ok <=> slot[i].type = object_type)
    /\ GetString(i) => Same /\ (last'.ok <=> slot[i].type = string_type)
\* C6: every accessor call succeeds on exactly the tags above, and only the
\* mutable get_array()/get_object() on null_type change the variant
C6_Accessors == [][C6_AccessStep]_vars
\* a null_type variant was just promoted by the mutable get_array()
C6_Witness ==
  /\ last.op = "get_array" /\ last.ok
  /\ AbsOf(last.dst) = VArr(<<>>)
  /\ \E k \in Names : slot[k].alive /\ slot[k].type = null_type

(***************************************************************************)
(* C5: a from_variant call that fails leaves its destination as it was     *)
(* before the call: no cleared, half-filled or replaced container.         *)
(***************************************************************************)
C5_Step ==
  /\ \A src \in VVSources :
       FromVariantVectorVector(src) /\ ~call'.ok => vv' = vv
  /\ \A src \in VecSources :
       FromVariantOptionalVector(src) /\ ~call'.ok => ovec' = ovec

\* C5: every failed from_variant leaves the destination unchanged
C5_NoPartialResult == [][C5_Step]_vars

\* what does hold: a source that is not an Array fails before the vector is
\* touched
C5_NotArrayStep ==
  \A src \in VVSources :
    FromVariantVectorVector(src) /\ src.type # array_type => ~call'.ok /\ vv' = vv

C5_NotArrayKept == [][C5_NotArrayStep]_vars

(***************************************************************************)
(* C9: a container converts to an Array of the same length, in order for   *)
(* the vector and the std::set; converting that Array back gives an equal  *)
(* container, for vector, std::set and std::unordered_set alike.           *)
(***************************************************************************)
C9_VectorStep ==
  /\ \A t \in VecInputs :
       ToVariantVector(t) =>
         /\ var'.type = array_type /\ Len(var'.kids) = Len(t)
         /\ \A n \in 1..Len(t) : var'.kids[n] = VInt(t[n])
  /\ \A t \in VecInputs :
       FromVariantVector(to_variant_vector(t)) => call'.ok /\ vec' = t

C9_UnorderedSetStep ==
  /\ \A S \in SetInputs : \A o \in Orders(S) :
       ToVariantUnorderedSet(o) =>
         /\ var'.type = array_type /\ Len(var'.kids) = Cardinality(S)
         /\ {k.data : k \in Range(var'.kids)} = S
  /\ \A S \in SetInputs : \A o \in Orders(S) :
       FromVariantUnorderedSet(to_variant_unordered_set(o)) => call'.ok /\ uset' = S

C9_SetStep ==
  /\ \A S \in SetInputs :
       ToVariantSet(S) =>
         /\ var'.type = array_type /\ Len(var'.kids) = Cardinality(S)
         /\ \A n \in 1..Cardinality(S) : var'.kids[n] = VInt(Ascending(S)[n])
  /\ \A S \in SetInputs :
       FromVariantSet(to_variant_set(S)) => call'.built /\ call'.ok /\ oset' = S

\* C9: every to_variant of a vector, unordered_set or set gives the Array of
\* its elements and every from_variant of that Array gives the container back
C9_RoundTrip == [][C9_VectorStep /\ C9_UnorderedSetStep /\ C9_SetStep]_vars

\* what does hold: the vector and the unordered set
C9_VectorAndUnorderedSet == [][C9_VectorStep /\ C9_UnorderedSetStep]_vars

(***************************************************************************)
(* C7: from_variant into a shared_ptr empties it on a Null source,         *)
(* converts into the object it already owns when it is non-empty (same     *)
(* object, no new one made), and makes a new object only when it is empty; *)
(* so the identity of the pointee changes only between empty and non-empty.*)
(***************************************************************************)
C7_Step ==
  \A src \in PtrSources \cup {var} :
    FromVariantSharedPtr(src) =>
      /\ is_null(src) => sp' = 0 /\ nobj' = nobj
      /\ ~is_null(src) /\ sp # 0 => sp' = sp /\ nobj' = nobj /\ objs'[sp].live
      /\ ~is_null(src) /\ sp = 0 => sp' = nobj + 1 /\ nobj' = nobj + 1
      /\ sp' # sp => (sp = 0) # (sp' = 0)
      /\ \A t \in PtrInputs :
           src = to_variant_vector(t) => call'.ok /\ objs'[sp'].val = t
      /\ \A n \in 1..nobj : n # sp => objs'[n] = objs[n]

\* C7: every from_variant into a shared_ptr resets on null_type, converts in
\* place into the owned object, or makes a new object only when empty
C7_SharedPtrIdentity == [][C7_Step]_vars

C7_Witness ==
  /\ call.op = "from_shared_ptr" /\ call.path = "in_place" /\ call.ok
  /\ sp = 1 /\ nobj = 1 /\ objs[1].val = <<2>>

(***************************************************************************)
(* C10: seconds(s) is microseconds(s*1000000) and milliseconds(m) is       *)
(* microseconds(m*1000), so seconds(1) + milliseconds(500) is              *)
(* microseconds(1500000); adding durations is commutative and associative; *)
(* (t + d) - t is d and t += d gives t + d; time_points are ordered as     *)
(* their counts are, and no value is above maximum().                      *)
(***************************************************************************)
Durations ==
  {microseconds(c) : c \in CountInputs} \cup {seconds(s) : s \in SecondsInputs}
    \cup {milliseconds(s) : s \in MillisecondsInputs}

C10_Step ==
  /\ \A s \in SecondsInputs :
       Seconds(s) /\ ~trap' => microseconds_eq(d1', microseconds(Mul(s, FromNat(1000000))))
  /\ \A s \in MillisecondsInputs :
       Milliseconds(s) /\ ~trap' => microseconds_eq(d1', microseconds(Mul(s, FromNat(1000))))
  /\ Plus /\ ~trap' =>
       /\ microseconds_eq(d1', microseconds_plus(d2, d1))
       /\ \A e \in Durations :
            microseconds_eq(microseconds_plus(d1', e),
                            microseconds_plus(d1, microseconds_plus(d2, e)))
       /\ d1 = milliseconds(FromNat(500)) /\ d2 = seconds(One)
            => microseconds_eq(d1', microseconds(FromNat(1500000)))
  /\ PlusAssign /\ ~trap' => microseconds_eq(d1', microseconds_plus(d1, d2))
  /\ TimePointPlus /\ ~trap' => microseconds_eq(time_point_minus(tp', tp), d1)
  /\ TimePointPlusAssign /\ ~trap' => time_point_eq(tp', time_point_plus(tp, d1))
  /\ TimePointMinus /\ ~trap' =>
       time_point_eq(time_point_plus(time_point(d2), d1'), tp)

C10_Ordered(a, b) ==
  /\ time_point_lt(a, b) = microseconds_lt(time_since_epoch(a), time_since_epoch(b))
  /\ time_point_gt(a, b) = time_point_lt(b, a)
  /\ time_point_le(a, b) = ~time_point_gt(a, b)
  /\ time_point_ge(a, b) = ~time_point_lt(a, b)
  /\ time_point_eq(a, b) = ~time_point_ne(a, b)
  /\ time_point_eq(a, b) = (~time_point_lt(a, b) /\ ~time_point_lt(b, a))
  /\ time_point_lt(a, b) = (IsNegative(Sub(Extend(count(time_since_epoch(a))),
                                            Extend(count(time_since_epoch(b))))))

C10_State ==
  /\ \A a, b \in {tp, time_point(d1), time_point(d2)} : C10_Ordered(a, b)
  /\ \A d \in {d1, d2, time_since_epoch(tp)} :
       microseconds_le(d, microseconds_maximum)
  /\ time_point_le(tp, time_point_maximum)

\* C10: every operation of time.hpp that completes gives the value above,
\* and in every state the time_points are ordered by their counts and no
\* count is above maximum()
C10_TimeArithmetic == []C10_State /\ [][C10_Step]_vars

C10_Witness ==
  /\ ~trap /\ steps = 1
  /\ d2 = seconds(One) /\ d1 = microseconds(FromNat(1500000))

\* an overflowing t + d that wrapped: (t + d) - t is still d
C10_WrapWitness ==
  /\ ~trap /\ steps = 1 /\ d1 = microseconds(Neg(One)) /\ d2 = d1
  /\ tp = time_point(microseconds(Add(count(microseconds_maximum), One)))

====
